---- MODULE Spec2Model ----
(***************************************************************************)
(* Appointment queueing and scheduling engine of app.py: the web booking   *)
(* form (patient_dashboard), the voice booking thread (voice_book /        *)
(* recognize_and_book), the doctor's completion action (doctor_dashboard)  *)
(* and the queue reindexing (reindex_appointments).                        *)
(*                                                                         *)
(* The specifications share the state:                                     *)
(*   Spec          every request handler runs to completion before the     *)
(*                 next one starts (one action per handler);               *)
(*   SpecQueue     as Spec, for the queue of one doctor and one date       *)
(*                 only, with a longer appointment table;                  *)
(*   SpecShared    as SpecQueue, with either doctor completing;            *)
(*   SpecDay       the web handlers of patients, doctors and pharmacist    *)
(*                 for one date;                                           *)
(*   SpecVoice     the voice thread, with the text of what is spoken;      *)
(*   SpecVoiceFair SpecVoice with a thread that keeps running;             *)
(*   SpecCalls     the functions of the program, each called on its own;   *)
(*   SpecConc      the handlers are split at their database commits, so    *)
(*                 that web requests and the voice thread interleave as    *)
(*                 the threads of the program do.                          *)
(***************************************************************************)
EXTENDS Integers, Sequences, FiniteSets, TLC

(* ---------------------------- bounds ---------------------------------- *)

\* The appointment table holds at most MaxAppts rows under Spec and SpecConc.
MaxAppts == 2

\* The appointment table holds at most MaxQueue rows under SpecQueue.
MaxQueue == 4

\* calculate_estimated_time is called with queue positions 1..MaxPosition
\* under SpecCalls.
MaxPosition == 62

\* The appointment table holds at most MaxDay rows under SpecDay.
MaxDay == 3

\* The spoken commands are all sequences of up to MaxWords words of the
\* vocabulary, and a few longer ones.
MaxWords == 3

(* ------------------------- the user table ------------------------------ *)

PatientIds == {"P1", "P2"}

DoctorIds == {"D1", "D2"}

\* The patients who use voice booking (each has at most one thread running).
VoiceUsers == {"P1"}

\* A doctor_id posted by the form that names no row of the user table (the
\* form posts ids of doctors or this one; ids of other users are left out).
NoUser == "nobody"

\* One part of available_time that strptime("%H:%M") cannot parse.
Junk == <<-1, -1>>

\* The rows of role "doctor".  available_time is held as the list of parts
\* that available_time.split("-" as en dash) yields, each part being <<hour,
\* minute>>.  D1 is the default "09:00-17:00" window; D2 has free text in
\* the column, is not accepting bookings and sees one patient a day.  No
\* handler writes these columns: the rows are data the program is given.
\* name is a text: the sequence of its characters ("Dr. Rao", "Dr. Roy").
User ==
  [d \in DoctorIds |->
     IF d = "D1"
       THEN [name |-> <<"D", "r", ".", " ", "R", "a", "o">>,
             availability |-> TRUE,
             available_time |-> << <<9, 0>>, <<17, 0>> >>,
             max_patients |-> 4,
             avg_consult_time |-> 15]
       ELSE [name |-> <<"D", "r", ".", " ", "R", "o", "y">>,
             availability |-> FALSE,
             available_time |-> << Junk >>,
             max_patients |-> 1,
             avg_consult_time |-> 20]]

\* The prescriptions a doctor may type.
Prescriptions == {"rx1", "rx2"}

\* Appointment.prescription of a row that has none (NULL).
NoPrescription == "NULL"

\* The default of Appointment.pharmacy_status.
NotProcessed == "Not Processed"

\* The statuses the pharmacist's form posts.
PharmacyStatuses == {"Dispensed"}

(* ------------------------------ time ---------------------------------- *)

\* date.today(); dates are day numbers.
Today == 1

\* The dates a booking form may post: yesterday, today, tomorrow.
Dates == {Today - 1, Today, Today + 1}

\* datetime.now().time() as a request may read it (minutes since midnight):
\* one minute before 17:00 and 17:00 itself.
ClockTimes == {1019, 1020}

\* The value of estimated_time when no estimate can be computed.
NA == <<0, 0, "N/A">>

ParseError == -1

\* datetime.strptime(part, "%H:%M"): minutes since midnight, or an error.
strptime(part) ==
  IF part[1] \in 0..23 /\ part[2] \in 0..59
    THEN part[1] * 60 + part[2]
    ELSE ParseError

\* strftime("%I:%M %p") of a datetime that lies `minutes` after midnight of
\* 1900-01-01: only the time of day is printed, on the 12-hour clock.
strftime(minutes) ==
  LET tod == minutes % 1440
      h   == tod \div 60
  IN  << (IF h % 12 = 0 THEN 12 ELSE h % 12), tod % 60,
         (IF h < 12 THEN "AM" ELSE "PM") >>

calculate_estimated_time(doctor, queue_position) ==
  IF Len(doctor.available_time) = 0
    THEN NA
    ELSE LET start_dt == strptime(doctor.available_time[1])
         IN  IF start_dt = ParseError
               THEN NA
               ELSE strftime(start_dt
                             + (queue_position - 1) * doctor.avg_consult_time)

\* is_date_available as it would be with now_time <= end_time.
is_date_available_UntilEnd(doctor, selected, nowTime) ==
  IF selected < Today
    THEN FALSE
    ELSE IF selected = Today
      THEN IF Len(doctor.available_time) = 0
             THEN TRUE
             ELSE LET end_time ==
                        strptime(doctor.available_time[Len(doctor.available_time)])
                  IN  IF end_time = ParseError
                        THEN TRUE
                        ELSE nowTime <= end_time
      ELSE TRUE

is_date_available(doctor, selected, nowTime) ==
  IF selected < Today
    THEN FALSE
    ELSE IF selected = Today
      THEN IF Len(doctor.available_time) = 0
             THEN TRUE
             ELSE LET end_time ==
                        strptime(doctor.available_time[Len(doctor.available_time)])
                  IN  IF end_time = ParseError
                        THEN TRUE
                        ELSE nowTime < end_time
      ELSE TRUE

(* ---------------------------- spoken text ------------------------------ *)

\* A text is the sequence of its characters.  The words the voice thread
\* looks for:
w_stop == <<"s", "t", "o", "p">>

w_exit == <<"e", "x", "i", "t">>

w_cancel == <<"c", "a", "n", "c", "e", "l">>

w_close == <<"c", "l", "o", "s", "e">>

w_tomorrow == <<"t", "o", "m", "o", "r", "r", "o", "w">>

w_today == <<"t", "o", "d", "a", "y">>

w_aaj == <<"a", "a", "j">>

\* words a patient says besides: a title and the doctors' family names
w_book == <<"b", "o", "o", "k">>

w_dr == <<"d", "r">>

w_rao == <<"r", "a", "o">>

w_roy == <<"r", "o", "y">>

\* The words of the exit condition of recognize_and_book.
StopWords == {w_stop, w_exit, w_cancel, w_close}

\* The words normalize_text takes out, in the order of its loop.
RemovedWords ==
  << <<"d", "o", "c", "t", "o", "r">>,
     <<"d", "r", ".">>,
     <<"d", "r">>,
     <<"a", "p", "p", "o", "i", "n", "t", "m", "e", "n", "t">>,
     <<"b", "o", "o", "k">>,
     <<"w", "i", "t", "h">>,
     <<"f", "o", "r">> >>

\* ch.isspace() and, for the characters of the model, not ch.isalnum()
Space == " "

Punctuation == {"."}

\* str.lower(), on the capitals that occur in the names
lower(text) ==
  [i \in 1..Len(text) |->
     CASE text[i] = "D" -> "d"
       [] text[i] = "R" -> "r"
       [] OTHER -> text[i]]

\* Python's `word in text`
Contains(text, word) ==
  \E i \in 1..(Len(text) - Len(word) + 1) :
    SubSeq(text, i, i + Len(word) - 1) = word

\* str.replace(word, ""): the occurrences of word found from left to right
\* are taken out
RECURSIVE replace(_, _)
replace(text, word) ==
  IF Len(text) < Len(word)
    THEN text
    ELSE IF SubSeq(text, 1, Len(word)) = word
      THEN replace(SubSeq(text, Len(word) + 1, Len(text)), word)
      ELSE <<text[1]>> \o replace(Tail(text), word)

\* the loop of normalize_text over the first k removed words
RECURSIVE RemoveWords(_, _)
RemoveWords(text, k) ==
  IF k = 0
    THEN text
    ELSE replace(RemoveWords(text, k - 1), RemovedWords[k])

\* str.strip()
strip(text) ==
  LET solid == {i \in 1..Len(text) : text[i] # Space}
  IN  IF solid = {}
        THEN <<>>
        ELSE SubSeq(text,
                    CHOOSE i \in solid : \A j \in solid : i <= j,
                    CHOOSE i \in solid : \A j \in solid : i >= j)

\* str.split(): the maximal runs of characters that are not spaces
RECURSIVE split(_)
split(text) ==
  LET t == strip(text)
      spaces == {i \in 1..Len(t) : t[i] = Space}
  IN  IF t = <<>>
        THEN <<>>
        ELSE IF spaces = {}
          THEN <<t>>
          ELSE LET k == CHOOSE i \in spaces : \A j \in spaces : i <= j
               IN  <<SubSeq(t, 1, k - 1)>>
                     \o split(SubSeq(t, k + 1, Len(t)))

normalize_text(text) ==
  LET IsKept(ch) == ch \notin Punctuation
  IN  strip(SelectSeq(RemoveWords(lower(text), Len(RemovedWords)), IsKept))

\* SequenceMatcher.find_longest_match on a[alo..ahi-1] and b[blo..bhi-1]:
\* the blocks <<i, j, k>> with a[i..i+k-1] = b[j..j+k-1]
MatchingBlocks(a, b, alo, ahi, blo, bhi) ==
  {blk \in (alo..(ahi - 1)) \X (blo..(bhi - 1)) \X (1..(ahi - alo)) :
     /\ blk[1] + blk[3] <= ahi
     /\ blk[2] + blk[3] <= bhi
     /\ \A n \in 0..(blk[3] - 1) : a[blk[1] + n] = b[blk[2] + n]}

\* the longest block; of the longest ones the one that starts earliest in a,
\* and of those the one that starts earliest in b
find_longest_match(a, b, alo, ahi, blo, bhi) ==
  LET blocks == MatchingBlocks(a, b, alo, ahi, blo, bhi)
  IN  CHOOSE x \in blocks :
        \A y \in blocks :
          \/ x[3] > y[3]
          \/ x[3] = y[3] /\ x[1] < y[1]
          \/ x[3] = y[3] /\ x[1] = y[1] /\ x[2] <= y[2]

\* the total size of SequenceMatcher.get_matching_blocks(): the longest
\* match, then the same to its left and to its right
RECURSIVE MatchedSize(_, _, _, _, _, _)
MatchedSize(a, b, alo, ahi, blo, bhi) ==
  IF MatchingBlocks(a, b, alo, ahi, blo, bhi) = {}
    THEN 0
    ELSE LET x == find_longest_match(a, b, alo, ahi, blo, bhi)
         IN  x[3]
               + MatchedSize(a, b, alo, x[1], blo, x[2])
               + MatchedSize(a, b, x[1] + x[3], ahi, x[2] + x[3], bhi)

\* SequenceMatcher(None, a, b).ratio() = 2.0 * matches / length, and 1.0 for
\* two empty texts; a score is the fraction <<numerator, denominator>>.
ratio(a, b) ==
  IF Len(a) + Len(b) = 0
    THEN <<1, 1>>
    ELSE <<2 * MatchedSize(a, b, 1, Len(a) + 1, 1, Len(b) + 1),
           Len(a) + Len(b)>>

\* score + 0.4
Bonus(score) == <<5 * score[1] + 2 * score[2], 5 * score[2]>>

Greater(x, y) == x[1] * y[2] > y[1] * x[2]

\* score >= 0.4
AtLeastThreshold(score) == 5 * score[1] >= 2 * score[2]

\* User.query.filter_by(role="doctor").all(): the doctors in id order
Doctors == <<"D1", "D2">>

\* The score match_doctor_name gives doctor d for the cleaned command.
Score(d, command_clean) ==
  LET tokens == split(lower(User[d].name))
      r == ratio(normalize_text(User[d].name), command_clean)
  IN  IF \/ Contains(command_clean, tokens[1])
         \/ Contains(command_clean, tokens[Len(tokens)])
        THEN Bonus(r)
        ELSE r

\* MatchLoop as it would be with `ratio >= highest_score`.
RECURSIVE MatchLoop_LastWins(_, _, _, _)
MatchLoop_LastWins(k, best_match, highest_score, command_clean) ==
  IF k > Len(Doctors)
    THEN IF best_match # NoUser /\ AtLeastThreshold(highest_score)
           THEN best_match
           ELSE NoUser
    ELSE LET score == Score(Doctors[k], command_clean)
         IN  IF ~Greater(highest_score, score)
               THEN MatchLoop_LastWins(k + 1, Doctors[k], score,
                                       command_clean)
               ELSE MatchLoop_LastWins(k + 1, best_match, highest_score,
                                       command_clean)

\* match_doctor_name's loop, from the k-th doctor on
RECURSIVE MatchLoop(_, _, _, _)
MatchLoop(k, best_match, highest_score, command_clean) ==
  IF k > Len(Doctors)
    THEN IF best_match # NoUser /\ AtLeastThreshold(highest_score)
           THEN best_match
           ELSE NoUser
    ELSE LET score == Score(Doctors[k], command_clean)
         IN  IF Greater(score, highest_score)
               THEN MatchLoop(k + 1, Doctors[k], score, command_clean)
               ELSE MatchLoop(k + 1, best_match, highest_score,
                              command_clean)

match_doctor_name(command) ==
  MatchLoop(1, NoUser, <<0, 1>>, normalize_text(command))

(* ------------------------------ state --------------------------------- *)

VARIABLES
  appts,    \* the appointment table, in order of insertion (id = index)
  voice,    \* per patient: the state of the voice booking thread
  flight,   \* per process: what a handler holds between two commits
  last      \* the response of the handler that ran last

vars == <<appts, voice, flight, last>>

Ids(A) == 1..Len(A)

\* Appointment.query.filter_by(doctor_id, date, status="Pending")
PendingOf(A, doctor_id, d) ==
  {i \in Ids(A) : /\ A[i].doctor_id = doctor_id
                  /\ A[i].date = d
                  /\ A[i].status = "Pending"}

PendingCount(A, doctor_id, d) == Cardinality(PendingOf(A, doctor_id, d))

\* Existing as it would be with status="Pending" added to the filter.
Existing_PendingOnly(A, patient_id, doctor_id, d) ==
  {i \in Ids(A) : /\ A[i].patient_id = patient_id
                  /\ A[i].doctor_id = doctor_id
                  /\ A[i].date = d
                  /\ A[i].status = "Pending"}

\* Appointment.query.filter_by(patient_id, doctor_id, date).first()
Existing(A, patient_id, doctor_id, d) ==
  {i \in Ids(A) : /\ A[i].patient_id = patient_id
                  /\ A[i].doctor_id = doctor_id
                  /\ A[i].date = d}

\* NewAppointment as it would be with queue_position = count.
NewAppointment_ZeroBased(patient_id, doctor_id, d, count) ==
  [patient_id |-> patient_id,
   doctor_id |-> doctor_id,
   date |-> d,
   status |-> "Pending",
   appointment_number |-> count,
   estimated_time |-> calculate_estimated_time(User[doctor_id], count),
   prescription |-> NoPrescription,
   pharmacy_status |-> NotProcessed]

\* Appointment(appointment_number=count + 1, ...) with the column defaults.
NewAppointment(patient_id, doctor_id, d, count) ==
  [patient_id |-> patient_id,
   doctor_id |-> doctor_id,
   date |-> d,
   status |-> "Pending",
   appointment_number |-> count + 1,
   estimated_time |-> calculate_estimated_time(User[doctor_id], count + 1),
   prescription |-> NoPrescription,
   pharmacy_status |-> NotProcessed]

\* Rank as it would be with the rows taken latest first.
Rank_Reversed(A, doctor_id, d, i) ==
  Cardinality({j \in PendingOf(A, doctor_id, d) : j >= i})

\* The queue_position reindexing gives row i: its rank by creation order
\* (order_by(created_at); rows are created in the order of their ids).
Rank(A, doctor_id, d, i) ==
  Cardinality({j \in PendingOf(A, doctor_id, d) : j <= i})

\* reindex_appointments as it would be without the estimated_time line.
reindex_appointments_NumbersOnly(A, doctor_id, d) ==
  [i \in Ids(A) |->
     IF i \in PendingOf(A, doctor_id, d)
       THEN [A[i] EXCEPT
               !.appointment_number = Rank(A, doctor_id, d, i)]
       ELSE A[i]]

reindex_appointments(A, doctor_id, d) ==
  [i \in Ids(A) |->
     IF i \in PendingOf(A, doctor_id, d)
       THEN [A[i] EXCEPT
               !.appointment_number = Rank(A, doctor_id, d, i),
               !.estimated_time =
                  calculate_estimated_time(User[A[i].doctor_id],
                                           Rank(A, doctor_id, d, i))]
       ELSE A[i]]

\* SetCompleted as it would be without the assignment of the status.
SetCompleted_PrescriptionOnly(A, appointment_id, prescription) ==
  [A EXCEPT ![appointment_id].prescription = prescription]

\* appointment.prescription = prescription; appointment.status = "Completed"
SetCompleted(A, appointment_id, prescription) ==
  [A EXCEPT ![appointment_id].prescription = prescription,
            ![appointment_id].status = "Completed"]

Response(op, outcome) == [op |-> op, outcome |-> outcome]

Idle == [pc |-> "idle"]

\* The threads that run a handler: one web request per patient, one voice
\* thread per patient, one web request per doctor.
Processes ==
  {<<"web", p>> : p \in PatientIds}
    \cup {<<"voice", p>> : p \in VoiceUsers}
    \cup {<<"doctor", d>> : d \in DoctorIds}

Init ==
  /\ appts = <<>>
  /\ voice = [p \in VoiceUsers |-> "off"]
  /\ flight = [x \in Processes |-> Idle]
  /\ last = Response("init", "None")

(* ------------------- the booking decision, web path -------------------- *)

\* The checks of patient_dashboard's POST branch, in the order of the code,
\* named by the message each one flashes.
BookOutcome(A, patient_id, doctor_id, d, nowTime) ==
  IF doctor_id \notin DoctorIds
    THEN "DoctorNotFound"
    ELSE IF ~is_date_available(User[doctor_id], d, nowTime)
      THEN "DateNotBookable"
      ELSE IF Existing(A, patient_id, doctor_id, d) # {}
        THEN "Duplicate"
        ELSE IF PendingCount(A, doctor_id, d) >= User[doctor_id].max_patients
          THEN "Full"
          ELSE "Booked"

(* ------------------ the booking decision, voice path ------------------- *)

\* What the recognized command contains: a stop word, the "tomorrow" and
\* "today"/"aaj" cues, and the doctor match_doctor_name finds in it.
Commands ==
  [stop : BOOLEAN, tomorrow : BOOLEAN, today : BOOLEAN,
   doctor : DoctorIds \cup {NoUser}]

\* " ".join(words)
RECURSIVE Join(_)
Join(words) ==
  IF Len(words) = 1
    THEN words[1]
    ELSE words[1] \o <<Space>> \o Join(Tail(words))

\* The words of which every combination is spoken.
Vocabulary == {w_rao, w_roy, w_today, w_tomorrow, w_cancel}

\* What recognize_google(audio).lower() may return.
Utterances ==
  {Join(words) : words \in UNION {[1..n -> Vocabulary] : n \in 1..MaxWords}}
    \cup {Join(words) : words \in
            {<<w_stop>>, <<w_exit>>, <<w_close>>, <<w_dr, w_rao>>,
             <<w_aaj>>, <<w_rao, w_aaj>>, <<w_roy, w_aaj, w_tomorrow>>,
             <<w_roy, w_today, w_stop>>, <<w_exit, w_rao, w_tomorrow>>,
             <<w_rao, w_close, w_today>>, <<w_dr, w_roy, w_tomorrow>>,
             <<w_book, w_dr, w_rao, w_aaj>>,
             <<w_book, w_dr, w_roy, w_today, w_cancel>>}}

\* What recognize_and_book finds in a command: the exit condition, the two
\* date tests and the doctor match_doctor_name returns.
Interpret(command) ==
  [stop     |-> \E word \in StopWords : Contains(command, word),
   tomorrow |-> Contains(command, w_tomorrow),
   today    |-> Contains(command, w_today) \/ Contains(command, w_aaj),
   doctor   |-> match_doctor_name(command)]

\* Interpret, for every command that is spoken.
Heard == [command \in Utterances |-> Interpret(command)]

\* DateSelected as it would be with the "today" test first.
DateSelected_TodayFirst(cmd) ==
  IF cmd.today
    THEN Today
    ELSE Today + 1

\* The date parsing of recognize_and_book.
DateSelected(cmd) ==
  IF cmd.tomorrow
    THEN Today + 1
    ELSE IF cmd.today THEN Today ELSE Today + 1

\* VoiceOutcome as it would be with the exit condition tested after the
\* booking steps.
VoiceOutcome_StopLast(A, cmd) ==
  IF cmd.doctor \notin DoctorIds
    THEN IF cmd.stop THEN "Stopped" ELSE "DoctorNotFound"
    ELSE IF PendingCount(A, cmd.doctor, DateSelected(cmd))
              >= User[cmd.doctor].max_patients
      THEN IF cmd.stop THEN "Stopped" ELSE "Full"
      ELSE "Booked"

\* One pass of recognize_and_book's loop over a recognized command.
VoiceOutcome(A, cmd) ==
  IF cmd.stop
    THEN "Stopped"
    ELSE IF cmd.doctor \notin DoctorIds
      THEN "DoctorNotFound"
      ELSE IF PendingCount(A, cmd.doctor, DateSelected(cmd))
                >= User[cmd.doctor].max_patients
        THEN "Full"
        ELSE "Booked"

(* ------------- handlers that run to completion (Spec) ----------------- *)

\* POST /patient_dashboard
patient_dashboard(p, doctor_id, d, nowTime) ==
  LET outcome == BookOutcome(appts, p, doctor_id, d, nowTime)
  IN  /\ appts' = IF outcome = "Booked"
                    THEN Append(appts,
                           NewAppointment(p, doctor_id, d,
                                          PendingCount(appts, doctor_id, d)))
                    ELSE appts
      /\ last' = Response("patient_dashboard", outcome)
      /\ UNCHANGED <<voice, flight>>

\* POST /doctor_dashboard with send_prescription, by the logged-in doctor doc
doctor_dashboard(doc, appointment_id, prescription) ==
  /\ IF appointment_id \in Ids(appts)
       THEN /\ appts' = reindex_appointments(
                           SetCompleted(appts, appointment_id, prescription),
                           doc, appts[appointment_id].date)
            /\ last' = Response("doctor_dashboard", "PrescriptionSent")
       ELSE /\ appts' = appts
            /\ last' = Response("doctor_dashboard", "NotFound")
  /\ UNCHANGED <<voice, flight>>

\* POST /pharmacist_dashboard
pharmacist_dashboard(appointment_id, status) ==
  /\ IF appointment_id \in Ids(appts)
       THEN /\ appts' = [appts EXCEPT
                           ![appointment_id].pharmacy_status = status]
            /\ last' = Response("pharmacist_dashboard", "StatusUpdated")
       ELSE /\ appts' = appts
            /\ last' = Response("pharmacist_dashboard", "NotFound")
  /\ UNCHANGED <<voice, flight>>

\* GET /voice_book: starts the background thread of patient p (the model
\* keeps to one thread per patient; voice_enabled is taken to be True)
voice_book(p) ==
  /\ voice[p] = "off"
  /\ voice' = [voice EXCEPT ![p] = "listening"]
  /\ last' = Response("voice_book", "Activated")
  /\ UNCHANGED <<appts, flight>>

\* recognize_google raises UnknownValueError: the loop continues
VoiceUnrecognized(p) ==
  /\ voice[p] = "listening"
  /\ last' = Response("recognize_and_book", "Unrecognized")
  /\ UNCHANGED <<appts, voice, flight>>

\* One pass of the loop of recognize_and_book over a recognized command
recognize_and_book(p, cmd) ==
  LET outcome == VoiceOutcome(appts, cmd)
      d       == DateSelected(cmd)
  IN  /\ voice[p] = "listening"
      /\ appts' = IF outcome = "Booked"
                    THEN Append(appts,
                           NewAppointment(p, cmd.doctor, d,
                                          PendingCount(appts, cmd.doctor, d)))
                    ELSE appts
      /\ voice' = IF outcome \in {"Booked", "Stopped"}
                    THEN [voice EXCEPT ![p] = "off"]
                    ELSE voice
      /\ last' = Response("recognize_and_book", outcome)
      /\ UNCHANGED flight

\* The handlers in flight that are still to insert their row.
Inserting == {x \in Processes : flight[x].pc = "insert"}

\* The model stops taking bookings that would make the table longer than
\* `cap` rows; rejected bookings are always taken.
Room(cap, outcome) ==
  outcome = "Booked" => Len(appts) + Cardinality(Inserting) < cap

Next ==
  \/ \E p \in PatientIds, d \in DoctorIds \cup {NoUser}, dt \in Dates,
         t \in ClockTimes :
        /\ Room(MaxAppts, BookOutcome(appts, p, d, dt, t))
        /\ patient_dashboard(p, d, dt, t)
  \/ \E doc \in DoctorIds, id \in 1..(Len(appts) + 1), rx \in Prescriptions :
        doctor_dashboard(doc, id, rx)
  \/ \E p \in VoiceUsers : voice_book(p)
  \/ \E p \in VoiceUsers : VoiceUnrecognized(p)
  \/ \E p \in VoiceUsers, cmd \in Commands :
        /\ Room(MaxAppts, VoiceOutcome(appts, cmd))
        /\ recognize_and_book(p, cmd)

Spec == Init /\ [][Next]_vars

(* ------- one doctor's queue for one date, longer (SpecQueue) ----------- *)

\* The commands that name doctor D1 and say "tomorrow".
QueueCommands ==
  {cmd \in Commands : cmd.doctor = "D1" /\ cmd.tomorrow /\ ~cmd.today}

NextQueue ==
  \/ \E p \in PatientIds, t \in ClockTimes :
        /\ Room(MaxQueue, BookOutcome(appts, p, "D1", Today + 1, t))
        /\ patient_dashboard(p, "D1", Today + 1, t)
  \/ \E id \in 1..(Len(appts) + 1) : doctor_dashboard("D1", id, "rx1")
  \/ \E p \in VoiceUsers : voice_book(p)
  \/ \E p \in VoiceUsers : VoiceUnrecognized(p)
  \/ \E p \in VoiceUsers, cmd \in QueueCommands :
        /\ Room(MaxQueue, VoiceOutcome(appts, cmd))
        /\ recognize_and_book(p, cmd)

SpecQueue == Init /\ [][NextQueue]_vars

(* ---- the same queue, completed by either doctor (SpecShared) ---------- *)

\* NextQueue, and doctor D2 sending prescriptions for appointments of D1's
\* queue (Appointment.query.get does not look at whose appointment it is).
NextShared ==
  \/ NextQueue
  \/ \E id \in 1..(Len(appts) + 1) : doctor_dashboard("D2", id, "rx1")

SpecShared == Init /\ [][NextShared]_vars

(* -------- both doctors and the pharmacist, one date (SpecDay) ---------- *)

\* The web handlers that write appointments, for tomorrow's queues of both
\* doctors.

NextDay ==
  \/ \E p \in PatientIds, d \in DoctorIds, t \in ClockTimes :
        /\ Room(MaxDay, BookOutcome(appts, p, d, Today + 1, t))
        /\ patient_dashboard(p, d, Today + 1, t)
  \/ \E doc \in DoctorIds, id \in 1..(Len(appts) + 1) :
        doctor_dashboard(doc, id, "rx1")
  \/ \E id \in 1..(Len(appts) + 1), status \in PharmacyStatuses :
        pharmacist_dashboard(id, status)

SpecDay == Init /\ [][NextDay]_vars

(* --------- the voice thread, with what is spoken (SpecVoice) ----------- *)

\* One pass of the loop of recognize_and_book over the recognized text
Say(p, command) == recognize_and_book(p, Heard[command])

\* One pass of the loop that raises some other exception (the microphone,
\* the recognition service): `except Exception` prints it and continues
VoiceError(p) ==
  /\ voice[p] = "listening"
  /\ last' = Response("recognize_and_book", "Error")
  /\ UNCHANGED <<appts, voice, flight>>

\* One pass of the loop of patient p's thread.
VoicePass(p) ==
  \/ VoiceUnrecognized(p)
  \/ VoiceError(p)
  \/ \E command \in Utterances :
        /\ Room(MaxAppts, VoiceOutcome(appts, Heard[command]))
        /\ Say(p, command)

NextVoice ==
  \/ \E p \in VoiceUsers : voice_book(p)
  \/ \E p \in VoiceUsers : VoicePass(p)

SpecVoice == Init /\ [][NextVoice]_vars

\* The thread is a running daemon thread: as long as it is in its loop it
\* goes on making passes.  What each pass hears is not constrained.
SpecVoiceFair ==
  Init /\ [][NextVoice]_vars /\ \A p \in VoiceUsers : WF_vars(VoicePass(p))

(* ---------- the functions, called on their own (SpecCalls) ------------ *)

\* What `last` holds after a call of a function: its name, its arguments
\* and what it returned.
Call(op, args, result) == [op |-> op, args |-> args, result |-> result]

\* Nothing has been called yet: a behaviour of SpecCalls is one call.
NotCalled == last = Response("init", "None")

\* calculate_estimated_time(doctor d, queue_position)
EstimateCall(d, queue_position) ==
  /\ NotCalled
  /\ last' = Call("calculate_estimated_time", <<d, queue_position>>,
                  calculate_estimated_time(User[d], queue_position))
  /\ UNCHANGED <<appts, voice, flight>>

\* datetime.now().time() at every minute of a day.
Clock == 0..(24 * 60 - 1)

\* is_date_available(doctor d, selected_date), read at clock time nowTime
BookableCall(d, selected, nowTime) ==
  /\ NotCalled
  /\ last' = Call("is_date_available", <<d, selected, nowTime>>,
                  is_date_available(User[d], selected, nowTime))
  /\ UNCHANGED <<appts, voice, flight>>

\* match_doctor_name(command)
MatchCall(command) ==
  /\ NotCalled
  /\ last' = Call("match_doctor_name", command, match_doctor_name(command))
  /\ UNCHANGED <<appts, voice, flight>>

NextCalls ==
  \/ /\ NotCalled
     /\ \E d \in DoctorIds, queue_position \in 1..MaxPosition :
          EstimateCall(d, queue_position)
  \/ /\ NotCalled
     /\ \E command \in Utterances : MatchCall(command)
  \/ /\ NotCalled
     /\ \E d \in DoctorIds, selected \in Dates, nowTime \in Clock :
          BookableCall(d, selected, nowTime)

SpecCalls == Init /\ [][NextCalls]_vars

(* ------- handlers split at their commits, as threads (SpecConc) -------- *)

\* patient_dashboard up to and including its count query
WebCount(p, doctor_id, d, nowTime) ==
  LET outcome == BookOutcome(appts, p, doctor_id, d, nowTime)
  IN  /\ flight[<<"web", p>>].pc = "idle"
      /\ outcome = "Booked"
           => Len(appts) + Cardinality(Inserting) < MaxAppts
      /\ IF outcome = "Booked"
           THEN /\ flight' = [flight EXCEPT ![<<"web", p>>] =
                               [pc |-> "insert", doctor_id |-> doctor_id,
                                date |-> d,
                                count |-> PendingCount(appts, doctor_id, d)]]
                /\ last' = last
           ELSE /\ flight' = flight
                /\ last' = Response("patient_dashboard", outcome)
      /\ UNCHANGED <<appts, voice>>

\* patient_dashboard from db.session.add(appointment) on
WebInsert(p) ==
  LET f == flight[<<"web", p>>]
  IN  /\ f.pc = "insert"
      /\ appts' = Append(appts,
                         NewAppointment(p, f.doctor_id, f.date, f.count))
      /\ flight' = [flight EXCEPT ![<<"web", p>>] = Idle]
      /\ last' = Response("patient_dashboard", "Booked")
      /\ UNCHANGED voice

\* one pass of recognize_and_book up to and including its count query
VoiceCount(p, cmd) ==
  LET outcome == VoiceOutcome(appts, cmd)
      d       == DateSelected(cmd)
  IN  /\ voice[p] = "listening"
      /\ flight[<<"voice", p>>].pc = "idle"
      /\ IF outcome = "Booked"
           THEN /\ flight' = [flight EXCEPT ![<<"voice", p>>] =
                               [pc |-> "insert", doctor_id |-> cmd.doctor,
                                date |-> d,
                                count |-> PendingCount(appts, cmd.doctor, d)]]
                /\ last' = last
           ELSE /\ flight' = flight
                /\ last' = Response("recognize_and_book", outcome)
      /\ voice' = IF outcome = "Stopped"
                    THEN [voice EXCEPT ![p] = "off"]
                    ELSE voice
      /\ UNCHANGED appts

\* recognize_and_book from db.session.add(appointment) to its break
VoiceInsert(p) ==
  LET f == flight[<<"voice", p>>]
  IN  /\ f.pc = "insert"
      /\ appts' = Append(appts,
                         NewAppointment(p, f.doctor_id, f.date, f.count))
      /\ flight' = [flight EXCEPT ![<<"voice", p>>] = Idle]
      /\ voice' = [voice EXCEPT ![p] = "off"]
      /\ last' = Response("recognize_and_book", "Booked")

\* voice_book and the failed recognition, while the thread is not mid-booking
VoiceIdle(p) ==
  /\ flight[<<"voice", p>>].pc = "idle"
  /\ voice_book(p) \/ VoiceUnrecognized(p)

\* doctor_dashboard up to and including its first commit
DoctorComplete(doc, appointment_id, prescription) ==
  /\ flight[<<"doctor", doc>>].pc = "idle"
  /\ IF appointment_id \in Ids(appts)
       THEN /\ appts' = SetCompleted(appts, appointment_id, prescription)
            /\ flight' = [flight EXCEPT ![<<"doctor", doc>>] =
                            [pc |-> "reindex",
                             date |-> appts[appointment_id].date]]
            /\ last' = last
       ELSE /\ appts' = appts
            /\ flight' = flight
            /\ last' = Response("doctor_dashboard", "NotFound")
  /\ UNCHANGED voice

\* doctor_dashboard's call of reindex_appointments(current_user.id, date)
DoctorReindex(doc) ==
  LET f == flight[<<"doctor", doc>>]
  IN  /\ f.pc = "reindex"
      /\ appts' = reindex_appointments(appts, doc, f.date)
      /\ flight' = [flight EXCEPT ![<<"doctor", doc>>] = Idle]
      /\ last' = Response("doctor_dashboard", "PrescriptionSent")
      /\ UNCHANGED voice

NextConc ==
  \/ \E p \in PatientIds, d \in DoctorIds \cup {NoUser}, dt \in Dates,
         t \in ClockTimes :
        /\ Room(MaxAppts, BookOutcome(appts, p, d, dt, t))
        /\ WebCount(p, d, dt, t)
  \/ \E p \in PatientIds : WebInsert(p)
  \/ \E p \in VoiceUsers : VoiceIdle(p)
  \/ \E p \in VoiceUsers, cmd \in Commands :
        /\ Room(MaxAppts, VoiceOutcome(appts, cmd))
        /\ VoiceCount(p, cmd)
  \/ \E p \in VoiceUsers : VoiceInsert(p)
  \/ \E doc \in DoctorIds, id \in 1..(Len(appts) + 1), rx \in Prescriptions :
        DoctorComplete(doc, id, rx)
  \/ \E doc \in DoctorIds : DoctorReindex(doc)

SpecConc == Init /\ [][NextConc]_vars

(* =========================== the claims =============================== *)

\* Pending rows of (doctor_id, d) carry the numbers 1..N, each once.
Contiguous(A, doctor_id, d) ==
  /\ {A[i].appointment_number : i \in PendingOf(A, doctor_id, d)}
       = 1..PendingCount(A, doctor_id, d)
  /\ \A i, j \in PendingOf(A, doctor_id, d) :
       A[i].appointment_number = A[j].appointment_number => i = j

\* C1 (invariant I1): in every state reached by bookings (web or voice) and
\* completions, the appointment_number values of the Pending appointments of
\* every (doctor, date) are exactly 1..N, without gaps or duplicates.
\* Violated under Spec: a doctor who completes another doctor's appointment
\* reindexes his own queue and leaves a gap in the other one.
C1_QueuePositionsContiguous ==
  \A d \in DoctorIds, dt \in Dates : Contiguous(appts, d, dt)

\* C2 (invariant I2): in every reachable state a patient holds at most one
\* appointment with a given doctor on a given date, whichever path booked.
\* Violated under Spec: the voice path books without looking for an
\* existing appointment.
C2_OneAppointmentPerPatientDoctorDate ==
  \A i, j \in Ids(appts) :
    (/\ appts[i].patient_id = appts[j].patient_id
     /\ appts[i].doctor_id = appts[j].doctor_id
     /\ appts[i].date = appts[j].date) => i = j

\* C3 (invariant I3): in every reachable state the number of Pending
\* appointments of a (doctor, date) is at most the doctor's max_patients.
\* Violated under SpecConc: two bookings count before either inserts.
C3_PendingWithinCapacity ==
  \A d \in DoctorIds, dt \in Dates :
    PendingCount(appts, d, dt) <= User[d].max_patients

\* The rows of the partition (doctor_id, d), by id.
Partition(A, doctor_id, d) ==
  {<<i, A[i]>> : i \in {k \in Ids(A) : A[k].doctor_id = doctor_id
                                        /\ A[k].date = d}}

\* C4 (serialization): between a booking's count of the Pending appointments
\* of a (doctor, date) and its insert, no other booking, completion or
\* reindex takes effect on that partition.
\* Violated under SpecConc: nothing serializes the handlers.
C4_CountThenInsertIsExclusive ==
  [][\A x \in Processes :
       (flight[x].pc = "insert" /\ flight'[x].pc = "insert")
         => Partition(appts', flight[x].doctor_id, flight[x].date)
              = Partition(appts, flight[x].doctor_id, flight[x].date)]_vars

\* C5 (completion reindexes the completed appointment's own queue): right
\* after any doctor completes a Pending appointment, the Pending
\* appointments of that appointment's (doctor, date) are numbered 1..N.
\* Violated under Spec: reindex_appointments is given the id of the doctor
\* who is logged in, not the appointment's doctor.
C5_CompletionReindexesOwnPartition ==
  [][\A doc \in DoctorIds, id \in 1..MaxAppts, rx \in Prescriptions :
       (/\ id \in Ids(appts)
        /\ appts[id].status = "Pending"
        /\ doctor_dashboard(doc, id, rx))
         => Contiguous(appts', appts[id].doctor_id, appts[id].date)]_vars

\* C6 (completing a missing or Completed appointment changes nothing): after
\* such a call every appointment has the status, prescription,
\* appointment_number and estimated_time it had before.
\* Violated under Spec: the handler does not look at the status and writes
\* the prescription again.
C6_CompletingTwiceChangesNothing ==
  [][\A doc \in DoctorIds, id \in 1..(MaxAppts + 1), rx \in Prescriptions :
       (/\ id \notin Ids(appts) \/ appts[id].status = "Completed"
        /\ doctor_dashboard(doc, id, rx))
         => /\ Len(appts') = Len(appts)
            /\ \A i \in Ids(appts) :
                 /\ appts'[i].status = appts[i].status
                 /\ appts'[i].prescription = appts[i].prescription
                 /\ appts'[i].appointment_number = appts[i].appointment_number
                 /\ appts'[i].estimated_time = appts[i].estimated_time]_vars

\* Some appointment of the triple exists, with a status among `statuses`.
HasAppointment(p, d, dt, statuses) ==
  \E i \in Ids(appts) : /\ appts[i].patient_id = p
                         /\ appts[i].doctor_id = d
                         /\ appts[i].date = dt
                         /\ appts[i].status \in statuses

\* C7 as claimed: a web booking that passes the doctor and date checks is
\* rejected as a duplicate exactly when a Pending appointment of the same
\* (patient, doctor, date) exists - a Completed one does not count - and a
\* rejected booking leaves the table unchanged.  Stated as: no step is a web
\* booking of (p, d, dt) that answers otherwise.
C7_DuplicateExactlyWhenPendingExists ==
  [][\A p \in PatientIds, d \in DoctorIds, dt \in Dates, t \in ClockTimes :
       (/\ last'.op = "patient_dashboard"
        /\ is_date_available(User[d], dt, t)
        /\ \/ (last'.outcome = "Duplicate")
                # HasAppointment(p, d, dt, {"Pending"})
           \/ (last'.outcome = "Duplicate" /\ appts' # appts))
         => ~patient_dashboard(p, d, dt, t)]_vars

\* C7 as amended: a web booking that passes the doctor and date checks is
\* rejected as a duplicate exactly when an appointment of the same (patient,
\* doctor, date) exists, Pending or Completed, and a rejected booking leaves
\* the table unchanged.  Stated as: no step is a web booking of (p, d, dt)
\* that answers otherwise.
C7_DuplicateExactlyWhenAnyExists ==
  [][\A p \in PatientIds, d \in DoctorIds, dt \in Dates, t \in ClockTimes :
       (/\ last'.op = "patient_dashboard"
        /\ is_date_available(User[d], dt, t)
        /\ \/ (last'.outcome = "Duplicate")
                # HasAppointment(p, d, dt, {"Pending", "Completed"})
           \/ (last'.outcome = "Duplicate" /\ appts' # appts))
         => ~patient_dashboard(p, d, dt, t)]_vars

\* C7, witness: a web booking was just rejected as a duplicate while every
\* stored appointment is Completed.
C7_Witness ==
  /\ last = Response("patient_dashboard", "Duplicate")
  /\ appts # <<>>
  /\ \A i \in Ids(appts) : appts[i].status = "Completed"

\* C8 (doctor missing or not accepting bookings): such a booking is rejected
\* and creates no appointment, on the web path and on the voice path.
\* Violated under Spec: neither path reads User.availability.
C8_UnavailableDoctorIsRejected ==
  [][/\ \A p \in PatientIds, d \in DoctorIds \cup {NoUser}, dt \in Dates,
          t \in ClockTimes :
          (/\ d \notin DoctorIds \/ ~User[d].availability
           /\ patient_dashboard(p, d, dt, t))
            => (last'.outcome # "Booked" /\ appts' = appts)
     /\ \A p \in VoiceUsers, cmd \in Commands :
          (/\ ~cmd.stop
           /\ cmd.doctor \notin DoctorIds \/ ~User[cmd.doctor].availability
           /\ recognize_and_book(p, cmd))
            => (last'.outcome # "Booked" /\ appts' = appts)]_vars

\* C9 (voice booking decides as the web path does): for the same doctor,
\* patient, date, clock and table, a voice command books exactly when the
\* doctor accepts bookings and the web path would book.
\* Violated under Spec: the voice path checks neither the date nor for an
\* existing appointment.
C9_VoiceBooksIffWebWould ==
  [][\A p \in VoiceUsers, cmd \in Commands, t \in ClockTimes :
       (/\ ~cmd.stop
        /\ cmd.doctor \in DoctorIds
        /\ recognize_and_book(p, cmd))
         => (Len(appts') = Len(appts) + 1
               <=> /\ User[cmd.doctor].availability
                   /\ BookOutcome(appts, p, cmd.doctor, DateSelected(cmd), t)
                        = "Booked")]_vars

\* C10 (a successful booking): it adds exactly one appointment, Pending,
\* whose appointment_number is the number of Pending appointments of that
\* doctor and date before the call plus one and whose estimated_time is the
\* estimate for that position; with the 09:00 window, 15 minutes a consult
\* and three Pending before, the number is 4 and the time 09:45 AM.
C10_BookingTakesNextPosition ==
  [][\A p \in PatientIds, d \in DoctorIds, dt \in Dates, t \in ClockTimes :
       (/\ last' = Response("patient_dashboard", "Booked")
        /\ patient_dashboard(p, d, dt, t))
         => LET n == Cardinality({i \in Ids(appts) :
                                    /\ appts[i].doctor_id = d
                                    /\ appts[i].date = dt
                                    /\ appts[i].status = "Pending"})
                new == appts'[Len(appts')]
            IN  /\ Len(appts') = Len(appts) + 1
                /\ SubSeq(appts', 1, Len(appts)) = appts
                /\ new.patient_id = p /\ new.doctor_id = d /\ new.date = dt
                /\ new.status = "Pending"
                /\ new.prescription = NoPrescription
                /\ new.appointment_number = n + 1
                /\ new.estimated_time
                     = calculate_estimated_time(User[d], n + 1)
                /\ (d = "D1" /\ n = 3)
                     => new.estimated_time = <<9, 45, "AM">>]_vars

\* C10, witness: the fourth booking of D1's queue was just made on the web
\* form, after three Pending ones, and got number 4 and 09:45 AM.
C10_Witness ==
  /\ last = Response("patient_dashboard", "Booked")
  /\ Len(appts) = 4
  /\ \A i \in Ids(appts) : /\ appts[i].status = "Pending"
                            /\ appts[i].doctor_id = "D1"
                            /\ appts[i].date = Today + 1
  /\ appts[4].appointment_number = 4
  /\ appts[4].estimated_time = <<9, 45, "AM">>

\* Of two Pending rows of (doctor_id, d), the one created first has the
\* smaller number.
CreationOrder(A, doctor_id, d) ==
  \A i, j \in PendingOf(A, doctor_id, d) :
    i < j => A[i].appointment_number < A[j].appointment_number

\* C11 (reindexing keeps FIFO order): right after a completion has
\* reindexed a (doctor, date), the Pending appointments of that doctor and
\* date are numbered 1, 2, 3, ... in order of creation, whatever numbers
\* they had before.
C11_ReindexKeepsCreationOrder ==
  [][last' = Response("doctor_dashboard", "PrescriptionSent")
       => \A doc \in DoctorIds, id \in Ids(appts) :
            doctor_dashboard(doc, id, "rx1")
              => /\ CreationOrder(appts', doc, appts[id].date)
                 /\ Contiguous(appts', doc, appts[id].date)]_vars

\* C11, witness: a completion has just reindexed D1's queue, in which the
\* third and fourth appointments are the Pending ones, numbered 1 and 2.
C11_Witness ==
  /\ last = Response("doctor_dashboard", "PrescriptionSent")
  /\ Len(appts) = 4
  /\ appts[1].status = "Completed" /\ appts[2].status = "Completed"
  /\ appts[3].status = "Pending" /\ appts[3].appointment_number = 1
  /\ appts[4].status = "Pending" /\ appts[4].appointment_number = 2

\* The time of day an estimate "HH:MM AM/PM" names, in minutes since
\* midnight.
TimeOfDay(t) ==
  ((t[1] % 12) + (IF t[3] = "PM" THEN 12 ELSE 0)) * 60 + t[2]

\* C12 (estimates advance by the consult time): for a doctor whose window
\* start parses and every position p >= 1, the estimate for position 1 is
\* the window start and the estimate for p + 1 is avg_consult_time minutes
\* after the estimate for p, as minutes since midnight.
\* Violated under SpecCalls: strftime prints the time of day only, so the
\* estimates wrap at midnight.
C12_EstimatesAdvanceByConsultTime ==
  last.op = "calculate_estimated_time"
    => LET doctor == User[last.args[1]]
           p      == last.args[2]
       IN  (/\ Len(doctor.available_time) > 0
            /\ strptime(doctor.available_time[1]) # ParseError)
             => /\ p = 1 => TimeOfDay(last.result)
                              = strptime(doctor.available_time[1])
                /\ TimeOfDay(calculate_estimated_time(doctor, p + 1))
                     - TimeOfDay(last.result) = doctor.avg_consult_time

\* The end of a doctor's window in minutes since midnight, or ParseError.
WindowEnd(doctor) ==
  IF Len(doctor.available_time) = 0
    THEN ParseError
    ELSE strptime(doctor.available_time[Len(doctor.available_time)])

StopCommands ==
  {Heard[command] :
     command \in {c \in Utterances :
                    \E word \in StopWords : Contains(c, word)}}

\* C14 (stop phrases): a pass of the voice loop over a command that
\* contains stop, exit, cancel or close, whatever else it contains, ends the
\* thread's loop as stopped and leaves the appointment table as it was.
C14_StopPhraseEndsSession ==
  [][\A p \in VoiceUsers, cmd \in StopCommands :
       recognize_and_book(p, cmd)
         => /\ last' = Response("recognize_and_book", "Stopped")
            /\ voice'[p] = "off"
            /\ appts' = appts]_vars

\* C14, witness: a command that names doctor D1, says "tomorrow" and
\* contains a stop word is among the spoken ones, and the thread has just
\* been stopped while the table has room and D1's queue is not full.
C14_Witness ==
  /\ \E cmd \in StopCommands : cmd.doctor = "D1" /\ cmd.tomorrow
  /\ last = Response("recognize_and_book", "Stopped")
  /\ voice["P1"] = "off"
  /\ Len(appts) < MaxAppts

\* C15 (bounded re-prompting): a voice thread that is listening comes to
\* an end after finitely many passes of its loop, also when every pass
\* fails (speech not recognized, no doctor matched, schedule full, error).
\* Violated under SpecVoiceFair: the loop is `while True` and a failing
\* pass continues it, so a thread whose passes all fail listens forever.
C15_ListeningThreadComesToAnEnd ==
  \A p \in VoiceUsers : (voice[p] = "listening") ~> (voice[p] = "off")

\* C16 (the doctor a command is matched to): match_doctor_name returns
\* the doctor with the greatest final score (the similarity ratio, plus 0.4
\* when the first or last word of the name occurs in the cleaned command),
\* of several with the greatest score the first in the order of the list,
\* and it returns that doctor only if the score is at least 0.4, else none.
C16_BestScoringDoctorIsMatched ==
  last.op = "match_doctor_name"
    => LET clean == normalize_text(last.args)
           final(k) == Score(Doctors[k], clean)
           best == CHOOSE k \in 1..Len(Doctors) :
                     /\ \A j \in 1..Len(Doctors) : ~Greater(final(j), final(k))
                     /\ \A j \in 1..(k - 1) : Greater(final(k), final(j))
       IN  last.result = IF AtLeastThreshold(final(best))
                           THEN Doctors[best]
                           ELSE NoUser

\* C16, witness: the command "rao roy" gives both doctors the same final
\* score, above the threshold, and the first of them was returned.
C16_Witness ==
  /\ last = Call("match_doctor_name", Join(<<w_rao, w_roy>>), Doctors[1])
  /\ ~Greater(Score("D1", Join(<<w_rao, w_roy>>)),
              Score("D2", Join(<<w_rao, w_roy>>)))
  /\ ~Greater(Score("D2", Join(<<w_rao, w_roy>>)),
              Score("D1", Join(<<w_rao, w_roy>>)))
  /\ AtLeastThreshold(Score("D2", Join(<<w_rao, w_roy>>)))

\* The date C17 gives a command: tomorrow if it contains "tomorrow", today
\* if it contains "today" or "aaj" and not "tomorrow", tomorrow otherwise.
ClaimedDate(command) ==
  CASE Contains(command, w_tomorrow) -> Today + 1
    [] /\ ~Contains(command, w_tomorrow)
       /\ Contains(command, w_today) \/ Contains(command, w_aaj) -> Today
    [] OTHER -> Today + 1

\* What is heard in each command, with the date C17 gives the command.
DatedCommands == {<<Heard[command], ClaimedDate(command)>> :
                    command \in Utterances}

\* C17 (relative dates): a voice booking stores the appointment under the
\* date the command resolves to: tomorrow for a command containing
\* "tomorrow", today for one containing "today" or "aaj" and not
\* "tomorrow", and tomorrow for every other command.
C17_VoiceBookingUsesResolvedDate ==
  [][last' = Response("recognize_and_book", "Booked")
       => \A p \in VoiceUsers, x \in DatedCommands :
            recognize_and_book(p, x[1])
              => /\ Len(appts') = Len(appts) + 1
                 /\ appts'[Len(appts')].date = x[2]]_vars

\* C17, witness: the voice thread has booked an appointment for today and
\* then, just now, one for tomorrow.
C17_Witness ==
  /\ last = Response("recognize_and_book", "Booked")
  /\ Len(appts) = 2
  /\ appts[1].date = Today
  /\ appts[2].date = Today + 1

\* Row i has the status, number, estimate and prescription it had.
RowKept(i) ==
  /\ appts'[i].status = appts[i].status
  /\ appts'[i].appointment_number = appts[i].appointment_number
  /\ appts'[i].estimated_time = appts[i].estimated_time
  /\ appts'[i].prescription = appts[i].prescription

\* C18 (partitions are independent): a booking for a (doctor, date), and a
\* completion (with its reindex) of an appointment of a (doctor, date),
\* leave the status, appointment_number, estimated_time and prescription
\* of every appointment of every other (doctor, date) as they were.
\* Violated under SpecDay: a doctor who completes another doctor's
\* appointment has his own queue reindexed.
C18_OtherPartitionsUntouched ==
  [][/\ last'.op = "patient_dashboard"
          => \A i \in Ids(appts) : RowKept(i)
     /\ last' = Response("doctor_dashboard", "PrescriptionSent")
          => \A doc \in DoctorIds, id \in Ids(appts) :
               doctor_dashboard(doc, id, "rx1")
                 => \A i \in Ids(appts) :
                      (\/ appts[i].doctor_id # appts[id].doctor_id
                       \/ appts[i].date # appts[id].date)
                        => RowKept(i)]_vars

\* C19 (estimates follow positions): in every reachable state the
\* estimated_time of every Pending appointment is the estimate for its
\* doctor and its current appointment_number.
C19_EstimateMatchesPosition ==
  \A i \in Ids(appts) :
    appts[i].status = "Pending"
      => appts[i].estimated_time
           = calculate_estimated_time(User[appts[i].doctor_id],
                                      appts[i].appointment_number)

\* C19, witness: a completion has just moved the second appointment, booked
\* as number 2, to number 1 and 09:00 AM, and a third one is Pending behind
\* it as number 2 at 09:15 AM.
C19_Witness ==
  /\ last = Response("doctor_dashboard", "PrescriptionSent")
  /\ Len(appts) = 3
  /\ appts[1].status = "Completed"
  /\ appts[2].status = "Pending"
  /\ appts[2].appointment_number = 1
  /\ appts[2].estimated_time = <<9, 0, "AM">>
  /\ appts[3].status = "Pending"
  /\ appts[3].appointment_number = 2
  /\ appts[3].estimated_time = <<9, 15, "AM">>

\* C20 (the lifecycle is monotone): no step deletes an appointment, no step
\* turns a Completed appointment Pending again, a prescription changes only
\* on an appointment that the step sets or leaves Completed, and no Pending
\* appointment carries a prescription.
C20_LifecycleIsMonotone ==
  [][/\ Len(appts') >= Len(appts)
     /\ \A i \in Ids(appts) :
          /\ appts'[i].patient_id = appts[i].patient_id
          /\ appts'[i].doctor_id = appts[i].doctor_id
          /\ appts'[i].date = appts[i].date
          /\ appts[i].status = "Completed" => appts'[i].status = "Completed"
          /\ appts'[i].prescription # appts[i].prescription
               => appts'[i].status = "Completed"
     /\ \A i \in Ids(appts') :
          appts'[i].status = "Pending"
            => appts'[i].prescription = NoPrescription]_vars

\* C20, witness: the pharmacist has just updated an appointment that a
\* doctor had completed with a prescription, while another appointment is
\* still Pending.
C20_Witness ==
  /\ last = Response("pharmacist_dashboard", "StatusUpdated")
  /\ \E i \in Ids(appts) : /\ appts[i].status = "Completed"
                             /\ appts[i].prescription = "rx1"
                             /\ appts[i].pharmacy_status = "Dispensed"
  /\ \E i \in Ids(appts) : /\ appts[i].status = "Pending"
                             /\ appts[i].pharmacy_status = "Dispensed"

====
